---------------------------- MODULE Spec2Model ----------------------------
(***************************************************************************)
(* Model of plasmapy/classes/simulation.py: the MHDSimulation RK4          *)
(* time stepper, its right-hand-side evaluators, the artificial viscosity  *)
(* and the vector/tensor calculus primitives on numpy arrays.              *)
(*                                                                         *)
(* Arrays are records [shape, data]: shape is the numpy shape tuple, data  *)
(* maps every 0-based index tuple to an element.  Elements are float64 in  *)
(* the source; here they live in the prime field of order P, in which the  *)
(* four arithmetic operations are exact, plus one absorbing element NaN    *)
(* for a division by zero.  Small integers keep their usual sign and order *)
(* through Signed.                                                         *)
(***************************************************************************)
EXTENDS Integers, Sequences, FiniteSets, TLC

\* ------------------------------------------------------------------ bounds
GridN == 2
MaxCalls == 2
MaxSlope == 1
MaxVal == 1
CalcN == 2

\* ------------------------------------------------------- element arithmetic
P == 10007
NaN == P
SqrtMu0 == 2

\* The inverse of a non-zero element: a^(P-2), with
\* P - 2 = 8192 + 1024 + 512 + 256 + 16 + 4 + 1.
nSq(a) == (a * a) % P
nPowInv(a) ==
    LET a2 == nSq(a)
        a4 == nSq(a2)
        a8 == nSq(a4)
        a16 == nSq(a8)
        a32 == nSq(a16)
        a64 == nSq(a32)
        a128 == nSq(a64)
        a256 == nSq(a128)
        a512 == nSq(a256)
        a1024 == nSq(a512)
        a2048 == nSq(a1024)
        a4096 == nSq(a2048)
        a8192 == nSq(a4096)
        b5 == (a * a4) % P
        b21 == (b5 * a16) % P
        b277 == (b21 * a256) % P
        b789 == (b277 * a512) % P
        b1813 == (b789 * a1024) % P
    IN  (b1813 * a8192) % P
\* The inverses of all non-zero elements, computed once.
Inverses == [a \in 1..(P - 1) |-> nPowInv(a)] @@ <<>>
nInv(a) == Inverses[a]

\* One float operation op on two elements.
nOp(op, x, y) ==
    IF x = NaN \/ y = NaN THEN NaN
    ELSE CASE op = "add" -> (x + y) % P
           [] op = "sub" -> (x - y + P) % P
           [] op = "mul" -> (x * y) % P
           [] op = "div" -> IF y = 0 THEN NaN ELSE (x * nInv(y)) % P

Num(n) == ((n % P) + P) % P
nDiv(x, y) == nOp("div", x, y)
nMul(x, y) == nOp("mul", x, y)
nAdd(x, y) == nOp("add", x, y)
nSub(x, y) == nOp("sub", x, y)

\* The representative in -(P-1)/2 .. (P-1)/2: sign and order of an element.
Signed(x) == IF x > (P - 1) \div 2 THEN x - P ELSE x
nGt0(x) == x # NaN /\ Signed(x) > 0
nLt0(x) == x # NaN /\ Signed(x) < 0
nAbs(x) == IF x = NaN THEN NaN ELSE IF Signed(x) < 0 THEN (P - x) % P ELSE x
nMax(x, y) == IF x = NaN \/ y = NaN THEN NaN ELSE IF Signed(x) >= Signed(y) THEN x ELSE y

\* ------------------------------------------------------------ numpy arrays
RECURSIVE Idx(_)
Idx(shape) ==
    IF shape = <<>> THEN {<<>>}
    ELSE {<<i>> \o r : i \in 0..(shape[1] - 1), r \in Idx(Tail(shape))}

RECURSIVE Size(_)
Size(shape) == IF shape = <<>> THEN 1 ELSE shape[1] * Size(Tail(shape))

\* An array value; its elements are computed when it is built.  exc is ""
\* for an array; an expression whose evaluation raised has the exception's
\* name there and no elements.
Arr(shape, data) == [exc |-> "", shape |-> shape, data |-> data @@ <<>>]
Raise(e) == [exc |-> e, shape |-> <<0>>, data |-> <<>>]
Scalar(x) == Arr(<<>>, [idx \in {<<>>} |-> x])
Full(shape, x) == Arr(shape, [idx \in Idx(shape) |-> x])
zeros(shape) == Full(shape, 0)
NoArr == Arr(<<0>>, [idx \in {} |-> 0])

Drop(s, n) == SubSeq(s, n + 1, Len(s))
Ones(n) == [k \in 1..n |-> 1]
Pad(s, n) == Ones(n - Len(s)) \o s
MaxOf(a, b) == IF a >= b THEN a ELSE b

\* numpy broadcasting of two shapes, aligned on their trailing axes.
BOk(s1, s2) ==
    LET n == MaxOf(Len(s1), Len(s2))
        p1 == Pad(s1, n)
        p2 == Pad(s2, n)
    IN  \A k \in 1..n : p1[k] = p2[k] \/ p1[k] = 1 \/ p2[k] = 1

BShape(s1, s2) ==
    LET n == MaxOf(Len(s1), Len(s2))
        p1 == Pad(s1, n)
        p2 == Pad(s2, n)
    IN  [k \in 1..n |-> IF p1[k] = 1 THEN p2[k] ELSE p1[k]]

\* The index of an operand of shape s that a result index idx reads.
Proj(idx, s) ==
    LET off == Len(idx) - Len(s)
    IN  [k \in 1..Len(s) |-> IF s[k] = 1 THEN 0 ELSE idx[off + k]]

\* Elementwise a op b with broadcasting: the operands are evaluated left to
\* right, and shapes that do not broadcast raise ValueError.
BinOp(op, a, b) ==
    IF a.exc # "" THEN a
    ELSE IF b.exc # "" THEN b
    ELSE IF ~BOk(a.shape, b.shape) THEN Raise("ValueError")
    ELSE Arr(BShape(a.shape, b.shape),
             [idx \in Idx(BShape(a.shape, b.shape)) |->
                nOp(op, a.data[Proj(idx, a.shape)], b.data[Proj(idx, b.shape)])])

aAdd(a, b) == BinOp("add", a, b)
aSub(a, b) == BinOp("sub", a, b)
aMul(a, b) == BinOp("mul", a, b)
aDiv(a, b) == BinOp("div", a, b)
aNeg(a) == aSub(Scalar(0), a)
aAbs(a) ==
    IF a.exc # "" THEN a
    ELSE Arr(a.shape, [idx \in Idx(a.shape) |-> nAbs(a.data[idx])])

\* a[i] : the i-th subarray along the leading axis.
Take(a, i) ==
    IF a.exc # "" THEN a
    ELSE IF a.shape = <<>> \/ i >= a.shape[1] THEN Raise("IndexError")
    ELSE Arr(Tail(a.shape), [idx \in Idx(Tail(a.shape)) |-> a.data[<<i>> \o idx]])

\* a[i, j, ...]
Take2(a, i, j) == Take(Take(a, i), j)

\* np.array([l[1], ..., l[n]]): the elements are evaluated in order; arrays
\* of differing shapes do not make a numeric array.
Stack(l) ==
    IF \E k \in 1..Len(l) : l[k].exc # ""
    THEN l[CHOOSE k \in 1..Len(l) : l[k].exc # "" /\ \A m \in 1..(k - 1) : l[m].exc = ""]
    ELSE IF \E k \in 1..Len(l) : l[k].shape # l[1].shape THEN Raise("ValueError")
    ELSE Arr(<<Len(l)>> \o l[1].shape,
             [idx \in Idx(<<Len(l)>> \o l[1].shape) |-> l[idx[1] + 1].data[Tail(idx)]])

\* a with a[i] = v (v broadcast to the subarray's shape).
SetItem(a, i, v) ==
    IF v.exc # "" THEN v
    ELSE IF a.exc # "" THEN a
    ELSE IF i >= a.shape[1] THEN Raise("IndexError")
    ELSE IF ~BOk(Tail(a.shape), v.shape) \/ BShape(Tail(a.shape), v.shape) # Tail(a.shape)
         THEN Raise("ValueError")
    ELSE Arr(a.shape, [idx \in Idx(a.shape) |->
                         IF idx[1] = i THEN v.data[Proj(Tail(idx), v.shape)]
                         ELSE a.data[idx]])

\* Position of idx in C (row-major) order, and back.
RECURSIVE Flat(_, _)
Flat(idx, shape) ==
    IF shape = <<>> THEN 0
    ELSE idx[1] * Size(Tail(shape)) + Flat(Tail(idx), Tail(shape))

RECURSIVE Unflat(_, _)
Unflat(n, shape) ==
    IF shape = <<>> THEN <<>>
    ELSE <<n \div Size(Tail(shape))>> \o Unflat(n % Size(Tail(shape)), Tail(shape))

\* a.reshape(shape): same elements in C order.
reshape(a, shape) ==
    IF a.exc # "" THEN a
    ELSE IF Size(shape) # Size(a.shape) THEN Raise("ValueError")
    ELSE Arr(shape, [idx \in Idx(shape) |-> a.data[Unflat(Flat(idx, shape), a.shape)]])

\* Python sum(l): 0 + l[1] + ... + l[n].
RECURSIVE SumUpTo(_, _)
SumUpTo(l, n) == IF n = 0 THEN Scalar(0) ELSE aAdd(SumUpTo(l, n - 1), l[n])
pysum(l) == SumUpTo(l, Len(l))

\* np.sum(a, axis=0)
sum_axis0(a) ==
    IF a.exc # "" THEN a
    ELSE pysum([i \in 1..a.shape[1] |-> Take(a, i - 1)])

\* a.max() over all elements.
RECURSIVE MaxUpTo(_, _)
MaxUpTo(a, n) ==
    IF n = 1 THEN a.data[Unflat(0, a.shape)]
    ELSE nMax(MaxUpTo(a, n - 1), a.data[Unflat(n - 1, a.shape)])
amax(a) ==
    IF a.exc # "" THEN a
    ELSE IF Size(a.shape) = 0 THEN Raise("ValueError")
    ELSE Scalar(MaxUpTo(a, Size(a.shape)))

\* An in-place operation on a (a *= ..., out=a): the result r must have a's
\* shape.
InPlace(a, r) ==
    IF r.exc # "" THEN r
    ELSE IF a.exc # "" THEN a
    ELSE IF r.shape # a.shape THEN Raise("ValueError")
    ELSE r

\* assert a.shape == shape, with exc the exception a failed check ends in.
Expect(a, shape, exc) ==
    IF a.exc # "" THEN a
    ELSE IF a.shape # shape THEN Raise(exc)
    ELSE a

\* b, evaluated after a.
Then(a, b) == IF a = <<>> THEN b ELSE b

\* ------------------------------------------------------------------ Solver
\* Solver(stepsize): the derivative operator bound to the grid spacings.
Solver(stepsize) == [dx |-> stepsize]

\* solver(f, axis): derivative of f along axis, same shape as f.  A periodic
\* forward difference divided by the spacing of that axis.
SolverCall(solver, f, axis) ==
    IF f.exc # "" THEN f
    ELSE IF axis >= Len(f.shape) \/ axis >= Len(solver.dx) THEN Raise("IndexError")
    ELSE Arr(f.shape,
             [idx \in Idx(f.shape) |->
                nDiv(nSub(f.data[[idx EXCEPT ![axis + 1] = (@ + 1) % f.shape[axis + 1]]],
                          f.data[idx]),
                     solver.dx[axis + 1])])

\* solver.dx[axis]
DxAt(solver, axis) ==
    IF axis >= Len(solver.dx) THEN Raise("IndexError") ELSE Scalar(solver.dx[axis + 1])

\* ------------------------------------------------------ calculus primitives
Prefix2(shape) == SubSeq(shape, 1, IF Len(shape) < 2 THEN Len(shape) ELSE 2)
Lead(shape) == IF shape = <<>> THEN 0 ELSE shape[1]

dot(vec1, vec2) ==
    IF vec1.exc # "" THEN vec1
    ELSE IF vec2.exc # "" THEN vec2
    ELSE IF Lead(vec1.shape) # 3 THEN Raise("AssertionError")
    ELSE IF Lead(vec2.shape) # 3 THEN Raise("AssertionError")
    ELSE IF vec1.shape # vec2.shape THEN Raise("AssertionError")
    ELSE Expect(sum_axis0(aMul(vec1, vec2)), Tail(vec1.shape), "AssertionError")

cross(vec1, vec2) ==
    IF vec1.exc # "" THEN vec1
    ELSE IF vec2.exc # "" THEN vec2
    ELSE IF Lead(vec1.shape) # 3 THEN Raise("AssertionError")
    ELSE IF Lead(vec2.shape) # 3 THEN Raise("AssertionError")
    ELSE IF vec1.shape # vec2.shape THEN Raise("AssertionError")
    ELSE Expect(Stack(<<aSub(aMul(Take(vec1, 1), Take(vec2, 2)),
                             aMul(Take(vec1, 2), Take(vec2, 1))),
                        aSub(aMul(Take(vec1, 2), Take(vec2, 0)),
                             aMul(Take(vec1, 0), Take(vec2, 2))),
                        aSub(aMul(Take(vec1, 0), Take(vec2, 1)),
                             aMul(Take(vec1, 1), Take(vec2, 0)))>>),
                vec1.shape, "AssertionError")

\* gradient[dim] = solver(f, dim) for dim in range(n)
RECURSIVE GradFill(_, _, _, _)
GradFill(gradient, f, solver, n) ==
    IF n = 0 THEN gradient
    ELSE SetItem(GradFill(gradient, f, solver, n - 1), n - 1,
                 SolverCall(solver, f, n - 1))

\* grad without the derivative: every component is f itself.
GradNoDerivative(f, solver) == Stack(<<f, f, f>>)

\* The message of the assertion names h, which is not defined: a failed
\* check ends in NameError.
grad(f, solver) ==
    IF f.exc # "" THEN f
    ELSE IF Len(solver.dx) # Len(f.shape) THEN Raise("NameError")
    ELSE GradFill(zeros(<<3>> \o f.shape), f, solver, Len(solver.dx))

div(vec, solver) ==
    IF vec.exc # "" THEN vec
    ELSE IF Lead(vec.shape) # 3 THEN Raise("AssertionError")
    ELSE IF Len(solver.dx) # Len(Tail(vec.shape)) THEN Raise("AssertionError")
    ELSE Expect(pysum([d \in 1..Len(solver.dx) |->
                         SolverCall(solver, Take(vec, d - 1), d - 1)]),
                Tail(vec.shape), "AssertionError")

\* tensor[i, j] = vec1[j] * vec2.reshape(3, 1, ...)[i, 0]
vdp(vec1, vec2) ==
    IF vec1.exc # "" THEN vec1
    ELSE IF vec2.exc # "" THEN vec2
    ELSE IF Lead(vec1.shape) # 3 THEN Raise("AssertionError")
    ELSE IF Lead(vec2.shape) # 3 THEN Raise("AssertionError")
    ELSE IF vec1.shape # vec2.shape THEN Raise("AssertionError")
    ELSE Expect(aMul(vec1, reshape(vec2, <<3, 1>> \o Tail(vec2.shape))),
                <<3>> \o vec1.shape, "AssertionError")

\* sum([solver(tensor[i, j, ...], i) for i in dims])
TensordivRow(tensor, solver, j) ==
    pysum([d \in 1..Len(solver.dx) |->
             SolverCall(solver, Take2(tensor, d - 1, j), d - 1)])

tensordiv(tensor, solver) ==
    IF tensor.exc # "" THEN tensor
    ELSE IF Prefix2(tensor.shape) # <<3, 3>> THEN Raise("AssertionError")
    ELSE IF Len(solver.dx) # Len(Drop(tensor.shape, 2)) THEN Raise("AssertionError")
    ELSE Expect(Stack(<<TensordivRow(tensor, solver, 0),
                        TensordivRow(tensor, solver, 1),
                        TensordivRow(tensor, solver, 2)>>),
                Tail(tensor.shape), "AssertionError")

\* sum([vec[i] * tensor[i, j, ...] for i in dims]), dims = range(nd)
VtDotRow(vec, tensor, nd, j) ==
    pysum([d \in 1..nd |-> aMul(Take(vec, d - 1), Take2(tensor, d - 1, j))])

\* dims = range(len(vec.shape[1:])): one term per grid axis.
vt_dot(vec, tensor) ==
    IF vec.exc # "" THEN vec
    ELSE IF tensor.exc # "" THEN tensor
    ELSE IF Lead(vec.shape) # 3 THEN Raise("AssertionError")
    ELSE IF Prefix2(tensor.shape) # <<3, 3>> THEN Raise("AssertionError")
    ELSE Expect(Stack(<<VtDotRow(vec, tensor, Len(Tail(vec.shape)), 0),
                        VtDotRow(vec, tensor, Len(Tail(vec.shape)), 1),
                        VtDotRow(vec, tensor, Len(Tail(vec.shape)), 2)>>),
                Tail(tensor.shape), "AssertionError")

\* ------------------------------------------------------------------ Plasma
gamma == nDiv(5, 3)
sqrt_mu0 == SqrtMu0

\* v = m / rho
velocity(c) == aDiv(c.momentum, c.density)

\* p = (gamma - 1) (e - rho v^2 / 2)
pressure(c) ==
    aMul(Scalar(nSub(gamma, 1)),
         aSub(c.energy,
              aDiv(aMul(c.density, sum_axis0(aMul(velocity(c), velocity(c)))),
                   Scalar(2))))

\* The two wave speeds enter only through their maxima; the model keeps their
\* squares, gamma p / rho and |B|^2 / (mu0 rho).
sound_speed(c) == aDiv(aMul(Scalar(gamma), pressure(c)), c.density)

alfven_speed(c) ==
    aDiv(sum_axis0(aMul(c.magnetic_field, c.magnetic_field)),
         aMul(Scalar(nMul(sqrt_mu0, sqrt_mu0)), c.density))

\* A plasma: its four core arrays and the quantities derived from them,
\* which are functions of the core arrays alone.
Derive(c) ==
    [density |-> c.density, momentum |-> c.momentum, energy |-> c.energy,
     magnetic_field |-> c.magnetic_field,
     velocity |-> velocity(c), pressure |-> pressure(c),
     sound_speed |-> sound_speed(c), alfven_speed |-> alfven_speed(c)]

Plasma(rho, m, e, B) ==
    Derive([density |-> rho, momentum |-> m, energy |-> e, magnetic_field |-> B])

domain_shape(pl) == pl.density.shape

\* ---------------------------------------------------------- viscosity model
c_shock == nDiv(4, 10)

\* The clipping with the comparison reversed.
ClipNegative(delv) ==
    IF delv.exc # "" THEN delv
    ELSE Arr(delv.shape, [idx \in Idx(delv.shape) |->
                            IF nLt0(delv.data[idx]) THEN 0 ELSE delv.data[idx]])

\* delv[np.where(delv > 0)] = 0
ClipPositive(delv) ==
    IF delv.exc # "" THEN delv
    ELSE Arr(delv.shape, [idx \in Idx(delv.shape) |->
                            IF nGt0(delv.data[idx]) THEN 0 ELSE delv.data[idx]])

\* c * dx**2 * abs(delv), dx read before delv is computed
shock_viscosity(pl, solver, paramaxis) ==
    aMul(aMul(Scalar(c_shock), aMul(DxAt(solver, paramaxis), DxAt(solver, paramaxis))),
         aAbs(ClipPositive(div(pl.velocity, solver))))

\* c * dx * vt with c = 1; vt is computed before dx is read
hyperdiff_viscosity(pl, solver, param, paramaxis) ==
    aMul(aAdd(amax(pl.alfven_speed), amax(pl.sound_speed)),
         aMul(Scalar(1), DxAt(solver, paramaxis)))

total_viscosity(pl, solver, param, paramaxis) ==
    aAdd(hyperdiff_viscosity(pl, solver, param, paramaxis),
         shock_viscosity(pl, solver, paramaxis))

\* a with a[i, j] = v
SetItem2(a, i, j, v) ==
    IF v.exc # "" THEN v
    ELSE IF a.exc # "" THEN a
    ELSE IF ~BOk(Drop(a.shape, 2), v.shape)
            \/ BShape(Drop(a.shape, 2), v.shape) # Drop(a.shape, 2)
         THEN Raise("ValueError")
    ELSE Arr(a.shape, [idx \in Idx(a.shape) |->
                         IF idx[1] = i /\ idx[2] = j
                         THEN v.data[Proj(Drop(idx, 2), v.shape)]
                         ELSE a.data[idx]])

\* visctens[0, 0] = (visc * v_solver(v[0], 0)) * 2; visctens *= 0.5 * rho.
\* The message of the closing assertion reads self.grid_size, which does not
\* exist: a failed check ends in AttributeError.
viscous_tensor(pl, solver) ==
    Expect(InPlace(zeros(<<3, 3>> \o domain_shape(pl)),
                   aMul(SetItem2(zeros(<<3, 3>> \o domain_shape(pl)), 0, 0,
                                 aMul(aMul(total_viscosity(pl, solver,
                                                           Take(pl.velocity, 0), 0),
                                           SolverCall(Solver(solver.dx),
                                                      Take(pl.velocity, 0), 0)),
                                      Scalar(2))),
                        aMul(Scalar(nDiv(1, 2)), pl.density))),
           <<3, 3>> \o domain_shape(pl), "AttributeError")

\* ---------------------------------------------------------- equation system
\* An optional argument: None, or the array passed.
None == [given |-> FALSE, val |-> NoArr]
Given(a) == [given |-> TRUE, val |-> a]
\* `not x`: None is falsy, an array quantity is truthy whatever it holds.
pynot(x) == ~x.given
\* if not x: x = default
OrDefault(x, default) == IF pynot(x) THEN default ELSE x.val

_ddt_density(pl, solver, t, density_arg) ==
    aSub(aMul(SolverCall(solver, total_viscosity(pl, solver, pl.density, 0), 0),
              SolverCall(solver, pl.density, 0)),
         div(aMul(pl.velocity, OrDefault(density_arg, pl.density)), solver))

_ddt_momentum(pl, solver, t, momentum_arg) ==
    aSub(aSub(tensordiv(viscous_tensor(pl, solver), solver),
              grad(pl.pressure, solver)),
         tensordiv(aSub(vdp(pl.velocity, OrDefault(momentum_arg, pl.momentum)),
                        vdp(aDiv(pl.magnetic_field, Scalar(sqrt_mu0)),
                            aDiv(pl.magnetic_field, Scalar(sqrt_mu0)))),
                   solver))

\* D_e = d_diff + d_visc, d_visc being computed first.
_ddt_energy(pl, solver, t, energy_arg) ==
    aSub(aAdd(div(vt_dot(pl.velocity, viscous_tensor(pl, solver)), solver),
              aMul(SolverCall(solver, total_viscosity(pl, solver, pl.energy, 0), 0),
                   SolverCall(solver, pl.energy, 0))),
         div(aAdd(aSub(aMul(pl.velocity, OrDefault(energy_arg, pl.energy)),
                       aMul(aDiv(pl.magnetic_field, Scalar(sqrt_mu0)),
                            dot(aDiv(pl.magnetic_field, Scalar(sqrt_mu0)),
                                pl.velocity))),
                  aMul(pl.velocity, pl.pressure)),
             solver))

_ddt_magfield(pl, solver, t, magfield_arg) ==
    aMul(aNeg(tensordiv(
                  aSub(vdp(pl.velocity,
                           aDiv(OrDefault(magfield_arg, pl.magnetic_field),
                                Scalar(sqrt_mu0))),
                       vdp(aDiv(OrDefault(magfield_arg, pl.magnetic_field),
                                Scalar(sqrt_mu0)),
                           pl.velocity)),
                  solver)),
         Scalar(sqrt_mu0))

\* self.equations[n - 1](t, arg)
equations(n, pl, solver, t, arg) ==
    CASE n = 1 -> _ddt_density(pl, solver, t, arg)
      [] n = 2 -> _ddt_momentum(pl, solver, t, arg)
      [] n = 3 -> _ddt_energy(pl, solver, t, arg)
      [] n = 4 -> _ddt_magfield(pl, solver, t, arg)

\* -------------------------------------------------------------- simulation
VARIABLES
    heap,               \* array objects by reference: the plasma's four core
                        \* arrays, their copies, and the k arrays of a step
    orig_variables,     \* time_stepper's list of references to the copies
    kn,                 \* time_stepper's list kn (references)
    derivs,             \* time_stepper's list derivs (references)
    pc,                 \* position inside time_stepper ("idle" outside it)
    i,                  \* index of the running for loop, 1..4
    dt,                 \* self.dt
    solver,             \* self.solver
    current_time,       \* self.current_time
    current_iteration,  \* self.current_iteration
    outcome,            \* how the last call ended: "", "returned" or the exception
    entry,              \* the four core arrays as they were when the call began
    initial,            \* the four core arrays after construction
    returns,            \* number of calls of time_stepper that returned
    call                \* the last direct call of a primitive (SpecCalc)

vars == <<heap, orig_variables, kn, derivs, pc, i, dt, solver, current_time,
          current_iteration, outcome, entry, initial, returns, call>>

simvars == <<heap, orig_variables, kn, derivs, pc, i, dt, solver, current_time,
             current_iteration, outcome, entry, initial, returns>>

\* plasma.core_variables: the plasma's own arrays, in the order of self.equations.
core_variables == <<"density", "momentum", "energy", "magnetic_field">>
OrigRefs == <<"orig1", "orig2", "orig3", "orig4">>
K1Refs == <<"ka1", "ka2", "ka3", "ka4">>
KnRefs == <<"kb1", "kb2", "kb3", "kb4">>
Refs == {core_variables[n] : n \in 1..4} \cup {OrigRefs[n] : n \in 1..4}
        \cup {K1Refs[n] : n \in 1..4} \cup {KnRefs[n] : n \in 1..4}

plasma(h) == Plasma(h["density"], h["momentum"], h["energy"], h["magnetic_field"])

Core(h) == [n \in 1..4 |-> h[core_variables[n]]]

\* var.copy(): a new array object (fresh) holding var's elements.
ArrayCopyAlias(var, fresh) == var
ArrayCopy(var, fresh) == fresh

\* The heap after one pass of an evaluation loop stored k as object ref
\* (kn.append(k1) / kn[i] = k2): the loop body writes no core variable.
StoreKFused(h, n, ref, k) ==
    [h EXCEPT ![ref] = k,
              ![core_variables[n]] = aAdd(h[core_variables[n]], aDiv(k, Scalar(2)))]
StoreKOnCore(h, n, ref, k) == [h EXCEPT ![ref] = k, ![core_variables[n]] = k]
StoreK(h, n, ref, k) == [h EXCEPT ![ref] = k]

\* derivs[i] += w * k  (in place on the object derivs[i] refers to; every k
\* of one equation has the shape of its k1)
IAdd(h, ref, w, k) == [h EXCEPT ![ref] = aAdd(h[ref], aMul(Scalar(w), k))]

\* The value np.add(f0, k / d, out=f) writes into the object f.
StepOutWrongBase(h, f0, k, d, f) == InPlace(h[f], aAdd(h[f], aDiv(h[k], Scalar(d))))
StepOut(h, f0, k, d, f) == InPlace(h[f], aAdd(h[f0], aDiv(h[k], Scalar(d))))

\* self.current_time += self.dt
AdvanceTimeHalf(t, step) == t + step \div 2
AdvanceTime(t, step) == t + step

EvalPcs == {"stage1_eval", "stage2_eval", "stage3_eval", "stage4_eval"}
UpdatePcs == {"stage1_update", "stage2_update", "stage3_update", "commit"}

\* The exception leaves time_stepper: nothing is restored.
Abort(exc) ==
    /\ pc' = "idle"
    /\ i' = 1
    /\ outcome' = exc
    /\ UNCHANGED <<heap, orig_variables, kn, derivs, dt, solver, current_time,
                   current_iteration, entry, initial, returns, call>>

\* The loop moves to its next pass, or the next loop starts.
Advance(nextpc) ==
    /\ i' = IF i < 4 THEN i + 1 ELSE 1
    /\ pc' = IF i < 4 THEN pc ELSE nextpc

\* One pass of an update loop: the core variable's object receives r.
Update(r, nextpc) ==
    IF r.exc # "" THEN Abort(r.exc)
    ELSE /\ heap' = [heap EXCEPT ![core_variables[i]] = r]
         /\ Advance(nextpc)
         /\ UNCHANGED <<orig_variables, kn, derivs, dt, solver, current_time,
                        current_iteration, outcome, entry, initial, returns, call>>

\* lines 73-77: half_dt, kn = [], derivs = [], the copies of the core variables.
\* The caller makes at most MaxCalls calls, and none after an exception.
Enter ==
    /\ pc = "idle"
    /\ current_iteration < MaxCalls
    /\ outcome \in {"", "returned"}
    /\ orig_variables' = [n \in 1..4 |-> ArrayCopy(core_variables[n], OrigRefs[n])]
    /\ heap' = [r \in Refs |->
                  IF \E n \in 1..4 : orig_variables'[n] = r
                  THEN heap[core_variables[CHOOSE n \in 1..4 : orig_variables'[n] = r]]
                  ELSE heap[r]]
    /\ kn' = <<>>
    /\ derivs' = <<>>
    /\ pc' = "stage1_eval"
    /\ i' = 1
    /\ entry' = Core(heap)
    /\ outcome' = ""
    /\ UNCHANGED <<dt, solver, current_time, current_iteration, initial, returns, call>>

\* lines 79-82: k1 = eq(self.current_time) * self.dt; both lists get k1
Stage1Eval ==
    /\ pc = "stage1_eval"
    /\ \E pl \in {plasma(heap)} :
       \E k1 \in {aMul(equations(i, pl, solver, current_time, None),
                       Scalar(Num(dt)))} :
          IF k1.exc # "" THEN Abort(k1.exc)
          ELSE /\ heap' = StoreK(heap, i, K1Refs[i], k1)
               /\ kn' = Append(kn, K1Refs[i])
               /\ derivs' = Append(derivs, K1Refs[i])
               /\ Advance("stage1_update")
               /\ UNCHANGED <<orig_variables, dt, solver, current_time,
                              current_iteration, outcome, entry, initial, returns, call>>

\* lines 83-84: np.add(f, k1/2, out=f)
Stage1Update ==
    /\ pc = "stage1_update"
    /\ \E r \in {StepOut(heap, core_variables[i], kn[i], 2, core_variables[i])} :
          Update(r, "stage2_eval")

\* lines 86-90: k2 = eq(t + half_dt, f) * dt; kn[i] = k2; derivs[i] += 2 * k2
Stage2Eval ==
    /\ pc = "stage2_eval"
    /\ \E pl \in {plasma(heap)} :
       \E k2 \in {aMul(equations(i, pl, solver, current_time + dt \div 2, Given(heap[core_variables[i]])),
                       Scalar(Num(dt)))} :
          IF k2.exc # "" THEN Abort(k2.exc)
          ELSE /\ kn' = [kn EXCEPT ![i] = KnRefs[i]]
               /\ heap' = IAdd(StoreK(heap, i, KnRefs[i], k2), derivs[i], 2, k2)
               /\ Advance("stage2_update")
               /\ UNCHANGED <<orig_variables, derivs, dt, solver, current_time,
                              current_iteration, outcome, entry, initial, returns, call>>

\* lines 91-92: np.add(f0, k2/2, out=f)
Stage2Update ==
    /\ pc = "stage2_update"
    /\ \E r \in {StepOut(heap, orig_variables[i], kn[i], 2, core_variables[i])} :
          Update(r, "stage3_eval")

\* lines 94-98: k3 = eq(t + half_dt, f) * dt; kn[i] = k3; derivs[i] += 2 * k3
Stage3Eval ==
    /\ pc = "stage3_eval"
    /\ \E pl \in {plasma(heap)} :
       \E k3 \in {aMul(equations(i, pl, solver, current_time + dt \div 2, Given(heap[core_variables[i]])),
                       Scalar(Num(dt)))} :
          IF k3.exc # "" THEN Abort(k3.exc)
          ELSE /\ kn' = [kn EXCEPT ![i] = KnRefs[i]]
               /\ heap' = IAdd(StoreK(heap, i, KnRefs[i], k3), derivs[i], 2, k3)
               /\ Advance("stage3_update")
               /\ UNCHANGED <<orig_variables, derivs, dt, solver, current_time,
                              current_iteration, outcome, entry, initial, returns, call>>

\* lines 99-101: np.add(f0, k3, out=f)
Stage3Update ==
    /\ pc = "stage3_update"
    /\ \E r \in {StepOut(heap, orig_variables[i], kn[i], 1, core_variables[i])} :
          Update(r, "stage4_eval")

\* lines 103-105: derivs[i] += eq(t + dt, f) * dt
Stage4Eval ==
    /\ pc = "stage4_eval"
    /\ \E pl \in {plasma(heap)} :
       \E k4 \in {aMul(equations(i, pl, solver, current_time + dt, Given(heap[core_variables[i]])),
                       Scalar(Num(dt)))} :
          IF k4.exc # "" THEN Abort(k4.exc)
          ELSE /\ heap' = IAdd(heap, derivs[i], 1, k4)
               /\ Advance("commit")
               /\ UNCHANGED <<orig_variables, kn, derivs, dt, solver, current_time,
                              current_iteration, outcome, entry, initial, returns, call>>

\* lines 107-109: np.add(f0, df/6, out=f)
Commit ==
    /\ pc = "commit"
    /\ \E r \in {StepOut(heap, orig_variables[i], derivs[i], 6, core_variables[i])} :
          Update(r, "advance")

\* lines 111-112, and the return
Finish ==
    /\ pc = "advance"
    /\ current_time' = AdvanceTime(current_time, dt)
    /\ current_iteration' = current_iteration + 1
    /\ pc' = "idle"
    /\ outcome' = "returned"
    /\ returns' = returns + 1
    /\ UNCHANGED <<heap, orig_variables, kn, derivs, i, dt, solver, entry,
                   initial, call>>

\* ------------------------------------------------------------ construction
\* A scalar field on the 1D grid: base + slope * x.
ScalarField(n, base, slope) ==
    Arr(<<n>>, [idx \in Idx(<<n>>) |-> Num(base + slope * idx[1])])

\* A field of Len(comps) components on the 1D grid: comps[c] * (1 + slope * x).
VectorField(n, comps, slope) ==
    Arr(<<Len(comps), n>>,
        [idx \in Idx(<<Len(comps), n>>) |-> Num(comps[idx[1] + 1] * (1 + slope * idx[2]))])

Slopes == 0..MaxSlope
Densities == {ScalarField(GridN, 1, a) : a \in Slopes}
Momenta == {VectorField(GridN, <<0, 0, 0>>, 0)}
           \cup {VectorField(GridN, <<1, 2, 0>>, a) : a \in Slopes}
\* The last is a field of one point, as a caller may assign one.
Energies == {ScalarField(GridN, 0, 0)} \cup {ScalarField(GridN, 3, a) : a \in Slopes}
            \cup {ScalarField(1, 3, 0)}
\* The last is a field of two components, as a caller may assign one.
MagneticFields == {VectorField(GridN, <<0, 0, 0>>, 0), VectorField(GridN, <<1, 1, 2>>, 1),
                   VectorField(GridN, <<1, 1>>, 0)}
\* self.solver and self.dt: Solver(stepsize) of the 1D grid with a time step,
\* and a solver that was given two spacings.
Configs == {[solver |-> Solver(<<1>>), dt |-> 2], [solver |-> Solver(<<2>>), dt |-> 4],
            [solver |-> Solver(<<1, 1>>), dt |-> 2]}

NoCall == [op |-> "", args |-> <<>>, exc |-> "", val |-> NoArr]

\* lines 46-66: MHDSimulation(plasma); dt and solver are plain attributes.
SimInit(rho, m, e, B, sv, step) ==
    /\ heap = [r \in Refs |->
                 CASE r = "density" -> rho
                   [] r = "momentum" -> m
                   [] r = "energy" -> e
                   [] r = "magnetic_field" -> B
                   [] OTHER -> NoArr]
    /\ orig_variables = <<>>
    /\ kn = <<>>
    /\ derivs = <<>>
    /\ pc = "idle"
    /\ i = 1
    /\ dt = step
    /\ solver = sv
    /\ current_time = 0
    /\ current_iteration = 0
    /\ outcome = ""
    /\ entry = <<rho, m, e, B>>
    /\ initial = <<rho, m, e, B>>
    /\ returns = 0

Init ==
    /\ \E rho \in Densities, m \in Momenta, e \in Energies, B \in MagneticFields,
          cf \in Configs :
          SimInit(rho, m, e, B, cf.solver, cf.dt)
    /\ call = NoCall

Next ==
    \/ Enter
    \/ Stage1Eval
    \/ Stage1Update
    \/ Stage2Eval
    \/ Stage2Update
    \/ Stage3Eval
    \/ Stage3Update
    \/ Stage4Eval
    \/ Commit
    \/ Finish

Spec == Init /\ [][Next]_vars

\* ------------------------------------------- direct calls of the primitives
\* An array of the given shape with elements a, a + b, a + 2b, ... in C order.
CalcField(shape, a, b) ==
    Arr(shape, [idx \in Idx(shape) |-> Num(a + b * Flat(idx, shape))])

\* Operands a caller may pass: fields on 1D, 2D and 3D grids, a field of two
\* components, a field on a grid of one point, a tensor of 3 x 2 components.
CalcVectors == {CalcField(<<3, CalcN>>, 1, 1), CalcField(<<3, CalcN>>, 2, 3),
                CalcField(<<3, 1>>, 1, 1), CalcField(<<2, CalcN>>, 1, 1),
                CalcField(<<3, CalcN, 1>>, 1, 2), CalcField(<<3, CalcN, 1, 1>>, 1, 2)}
CalcScalars == {CalcField(<<CalcN>>, 1, 1), CalcField(<<CalcN>>, 3, 0),
                CalcField(<<CalcN, 1>>, 1, 2)}
CalcTensors == {CalcField(<<3, 3, CalcN>>, 1, 1), CalcField(<<3, 3, CalcN, 1>>, 1, 1),
                CalcField(<<3, 3, CalcN, 1, 1>>, 2, 1), CalcField(<<3, 2, CalcN>>, 1, 1),
                CalcField(<<3, 3, 1>>, 2, 1)}
CalcSolvers == {Solver(<<1>>), Solver(<<2>>), Solver(<<1, 1>>), Solver(<<1, 1, 1>>)}

\* The record of the call op(args) that ended with the outcome r.
Result(op, args, r) == [op |-> op, args |-> args, exc |-> r.exc, val |-> r]

CallDot ==
    /\ call.op = ""
    /\ \E v1 \in CalcVectors, v2 \in CalcVectors :
          call' = Result("dot", <<v1, v2>>, dot(v1, v2))
    /\ UNCHANGED simvars

CallCross ==
    /\ call.op = ""
    /\ \E v1 \in CalcVectors, v2 \in CalcVectors :
          call' = Result("cross", <<v1, v2>>, cross(v1, v2))
    /\ UNCHANGED simvars

CallGrad ==
    /\ call.op = ""
    /\ \E f \in CalcScalars, sv \in CalcSolvers :
          call' = Result("grad", <<f, sv>>, grad(f, sv))
    /\ UNCHANGED simvars

CallDiv ==
    /\ call.op = ""
    /\ \E v \in CalcVectors, sv \in CalcSolvers :
          call' = Result("div", <<v, sv>>, div(v, sv))
    /\ UNCHANGED simvars

CallVdp ==
    /\ call.op = ""
    /\ \E v1 \in CalcVectors, v2 \in CalcVectors :
          call' = Result("vdp", <<v1, v2>>, vdp(v1, v2))
    /\ UNCHANGED simvars

CallTensordiv ==
    /\ call.op = ""
    /\ \E T \in CalcTensors, sv \in CalcSolvers :
          call' = Result("tensordiv", <<T, sv>>, tensordiv(T, sv))
    /\ UNCHANGED simvars

CallVtDot ==
    /\ call.op = ""
    /\ \E v \in CalcVectors, T \in CalcTensors :
          call' = Result("vt_dot", <<v, T>>, vt_dot(v, T))
    /\ UNCHANGED simvars

\* self.shock_viscosity(paramaxis) on the simulation's plasma
CallShockViscosity ==
    /\ call.op = ""
    /\ \E paramaxis \in 0..(Len(solver.dx) - 1) :
          call' = Result("shock_viscosity", <<paramaxis>>,
                         shock_viscosity(plasma(heap), solver, paramaxis))
    /\ UNCHANGED simvars

\* The caller drops the result.
Discard ==
    /\ call.op # ""
    /\ call' = NoCall
    /\ UNCHANGED simvars

\* A simulation of a plasma of uniform density rho0 whose x velocity is
\* dx * c0 * (1 + s * x): its divergence is a whole number at every point.
InitCalc ==
    /\ \E rho0 \in 1..2, c0 \in (-MaxVal)..MaxVal, s \in Slopes, cf \in Configs :
          SimInit(Full(<<GridN>>, rho0),
                  VectorField(GridN, <<rho0 * cf.solver.dx[1] * c0, 0, 0>>, s),
                  zeros(<<GridN>>), zeros(<<3, GridN>>), cf.solver, cf.dt)
    /\ call = NoCall

NextCalc ==
    \/ CallDot
    \/ CallCross
    \/ CallGrad
    \/ CallDiv
    \/ CallVdp
    \/ CallTensordiv
    \/ CallVtDot
    \/ CallShockViscosity
    \/ Discard

SpecCalc == InitCalc /\ [][NextCalc]_vars

\* ------------------------------------------------------- the RK4 reference
\* The right-hand side of equation n as a function of a whole state st, the
\* tuple of the four core arrays.
StateAsPlasma(st) == Plasma(st[1], st[2], st[3], st[4])
RHS(pl, sv, n) == equations(n, pl, sv, 0, None)
KOf(st, sv, step) ==
    LET pl == StateAsPlasma(st)
    IN  Then(domain_shape(pl),
             [n \in 1..4 |-> aMul(RHS(pl, sv, n), Scalar(Num(step)))] @@ <<>>)
StatePlus(st, k, d) ==
    [n \in 1..4 |-> aAdd(st[n], aDiv(k[n], Scalar(d)))] @@ <<>>

\* f0 + (k1 + 2 k2 + 2 k3 + k4) / 6, the four stages computed in their order.
ClassicalRK4(f0, sv, step) ==
    LET k1 == KOf(f0, sv, step)
        k2 == KOf(StatePlus(f0, k1, 2), sv, step)
        k3 == KOf(StatePlus(f0, k2, 2), sv, step)
        k4 == KOf(StatePlus(f0, k3, 1), sv, step)
    IN  IF \/ k1 = <<>>
           \/ k2 = <<>>
           \/ k3 = <<>>
           \/ k4 = <<>>
        THEN f0
        ELSE [n \in 1..4 |->
                aAdd(f0[n],
                     aDiv(aAdd(aAdd(aAdd(k1[n], aMul(Scalar(2), k2[n])),
                                    aMul(Scalar(2), k3[n])),
                               k4[n]),
                          Scalar(6)))]

Returned == pc = "idle" /\ outcome = "returned"
Raised == pc = "idle" /\ outcome \notin {"", "returned"}
InCall == pc # "idle"

\* A spatially uniform state with zero velocity and zero magnetic field.
IsUniform(a) == \A x, y \in Idx(a.shape) : a.data[x] = a.data[y]
IsZero(a) == \A x \in Idx(a.shape) : a.data[x] = 0
UniformAtRest(st) ==
    /\ IsUniform(st[1])
    /\ \A x \in Idx(st[1].shape) : st[1].data[x] # 0
    /\ IsZero(st[2])
    /\ IsUniform(st[3])
    /\ st[4].shape[1] = 3
    /\ IsZero(st[4])

\* ------------------------------------------------------------------ claims
\* C1: when a call of time_stepper returns, each of the four core variables
\* equals f0 + (k1 + 2 k2 + 2 k3 + k4)/6, with f0 its value on entry and
\* k1..k4 = dt * RHS at f0, f0 + k1/2, f0 + k2/2 and f0 + k3, each stage
\* state taken for all four variables together.
C1_ClassicalRK4 ==
    Returned => Core(heap) = ClassicalRK4(entry, solver, dt)

\* A returned call on a non-uniform plasma whose step moved every core variable.
C1_Witness ==
    /\ Returned
    /\ \A n \in 1..4 : Core(heap)[n] # entry[n]

\* C2: a call that returns adds exactly 1 to current_iteration and exactly dt
\* to current_time, no other step changes them, they never decrease, and after
\* N returned calls current_iteration = N and current_time = N * dt.
C2_Counters ==
    /\ [](current_iteration = returns /\ current_time = returns * dt)
    /\ [][/\ current_iteration' >= current_iteration
          /\ current_time' >= current_time
          /\ IF outcome' = "returned" /\ pc = "advance"
             THEN /\ current_iteration' = current_iteration + 1
                  /\ current_time' = current_time + dt
             ELSE /\ current_iteration' = current_iteration
                  /\ current_time' = current_time]_vars

\* Two calls have returned on a plasma that the steps changed.
C2_Witness ==
    /\ Returned
    /\ returns = 2
    /\ Core(heap) # initial

\* C3: when an evaluation of a stage raises (a shape or dimension mismatch
\* found by a calculus primitive is raised there), the exception reaches the
\* caller of time_stepper and the four core variables hold the values they had
\* before the call.
C3_FailureLeavesState ==
    [][(pc \in EvalPcs /\ pc' = "idle") =>
         (outcome' \notin {"", "returned"} /\ Core(heap') = entry)]_vars

\* vdp raised while the momentum equation was evaluated, after the density
\* equation had been evaluated with a non-zero result.
C3_Witness ==
    /\ Raised
    /\ outcome = "AssertionError"
    /\ Len(kn) = 1
    /\ ~IsZero(heap[kn[1]])

\* C4: on a uniform plasma at rest without magnetic field, every call of
\* time_stepper leaves the four core variables as they were, for any number
\* of consecutive calls.
C4_UniformFixedPoint ==
    (UniformAtRest(initial) /\ pc = "idle") => Core(heap) = initial

\* Two calls returned on a uniform plasma at rest with non-zero energy.
C4_Witness ==
    /\ UniformAtRest(initial)
    /\ ~IsZero(initial[3])
    /\ Returned
    /\ returns = 2

\* C5: for vector fields v1, v2 of one shape (3, *S), vdp(v1, v2) returns an
\* array of shape (3, 3, *S) whose element [i, j] at every grid point is
\* v1[i] * v2[j].
C5_VdpOuterProduct ==
    (/\ call.op = "vdp"
     /\ Lead(call.args[1].shape) = 3
     /\ call.args[1].shape = call.args[2].shape) =>
        /\ call.exc = ""
        /\ call.val.shape = <<3, 3>> \o Tail(call.args[1].shape)
        /\ \A idx \in Idx(call.val.shape) :
              call.val.data[idx] =
                 nMul(call.args[1].data[<<idx[1]>> \o Drop(idx, 2)],
                      call.args[2].data[<<idx[2]>> \o Drop(idx, 2)])

\* vdp returned for two different fields on the 1D grid.
C5_Witness ==
    /\ call.op = "vdp"
    /\ call.exc = ""
    /\ call.args[1] # call.args[2]
    /\ call.val.shape = <<3, 3, CalcN>>

\* The grid rank of a vector field's shape.
GridRank(shape) == Len(Tail(shape))

\* C6: for a vector field v of shape (3, *S) and a tensor field T of shape
\* (3, 3, *S) on a 1D, 2D or 3D grid, component j of vt_dot(v, T) is the sum
\* over i in {0, 1, 2} of v[i] * T[i, j] at every grid point.
C6_VtDotContraction ==
    (/\ call.op = "vt_dot"
     /\ Lead(call.args[1].shape) = 3
     /\ call.args[2].shape = <<3>> \o call.args[1].shape
     /\ GridRank(call.args[1].shape) \in 1..3) =>
        /\ call.exc = ""
        /\ call.val.shape = call.args[1].shape
        /\ \A idx \in Idx(call.val.shape) :
              call.val.data[idx] =
                 nAdd(nAdd(nMul(call.args[1].data[<<0>> \o Tail(idx)],
                                call.args[2].data[<<0>> \o idx]),
                           nMul(call.args[1].data[<<1>> \o Tail(idx)],
                                call.args[2].data[<<1>> \o idx])),
                      nMul(call.args[1].data[<<2>> \o Tail(idx)],
                           call.args[2].data[<<2>> \o idx]))

\* vt_dot returned for a vector and a tensor field on the 1D grid.
C6_Witness ==
    /\ call.op = "vt_dot"
    /\ call.exc = ""
    /\ call.args[1].shape = <<3, CalcN>>
    /\ call.args[2].shape = <<3, 3, CalcN>>

\* The operands of a call break a precondition of the primitive: a leading
\* axis that is not 3 (3 x 3 for a tensor), operands on different grids, or a
\* number of spacings that is not the grid rank of the field.
Malformed(c) ==
    CASE c.op \in {"dot", "cross", "vdp"} ->
           \/ Lead(c.args[1].shape) # 3
           \/ Lead(c.args[2].shape) # 3
           \/ c.args[1].shape # c.args[2].shape
      [] c.op = "grad" -> Len(c.args[2].dx) # Len(c.args[1].shape)
      [] c.op = "div" ->
           \/ Lead(c.args[1].shape) # 3
           \/ Len(c.args[2].dx) # GridRank(c.args[1].shape)
      [] c.op = "tensordiv" ->
           \/ Prefix2(c.args[1].shape) # <<3, 3>>
           \/ Len(c.args[2].dx) # Len(Drop(c.args[1].shape, 2))
      [] c.op = "vt_dot" ->
           \/ Lead(c.args[1].shape) # 3
           \/ Prefix2(c.args[2].shape) # <<3, 3>>
           \/ Tail(c.args[1].shape) # Drop(c.args[2].shape, 2)
      [] OTHER -> FALSE

\* The exceptions that report a shape mismatch: a failed shape assertion, and
\* numpy's refusal to broadcast.
ShapeMismatch == {"AssertionError", "ValueError"}

\* C7: a call of a calculus primitive with malformed operands ends in a
\* shape-mismatch failure: it returns no value and raises nothing else.
C7_MalformedRaisesShapeMismatch ==
    Malformed(call) => call.exc \in ShapeMismatch

\* vt_dot returned a value for a vector field on a grid of one point and a
\* tensor field on a grid of CalcN points.
C7_Witness ==
    /\ call.op = "vt_dot"
    /\ Malformed(call)
    /\ call.args[1].shape = <<3, 1>>
    /\ call.args[2].shape = <<3, 3, CalcN>>
    /\ call.exc = ""

\* C8: shock_viscosity(axis) is, at every grid point, c * dx[axis]^2 *
\* |div v| where div v < 0 and zero where div v >= 0, so it is nowhere
\* negative.
C8_ShockViscosity ==
    (call.op = "shock_viscosity" /\ call.exc = "") =>
        /\ call.val.shape = div(plasma(heap).velocity, solver).shape
        /\ \A x \in Idx(call.val.shape) :
              call.val.data[x] =
                 IF Signed(div(plasma(heap).velocity, solver).data[x]) < 0
                 THEN nMul(nMul(c_shock,
                                nMul(solver.dx[call.args[1] + 1],
                                     solver.dx[call.args[1] + 1])),
                           Num(-Signed(div(plasma(heap).velocity, solver).data[x])))
                 ELSE 0

\* shock_viscosity returned for a flow that converges at one grid point and
\* diverges at another, on a grid whose spacing is not 1.
C8_Witness ==
    /\ call.op = "shock_viscosity"
    /\ call.exc = ""
    /\ solver.dx[call.args[1] + 1] # 1
    /\ \E x, y \in Idx(call.val.shape) :
          /\ Signed(div(plasma(heap).velocity, solver).data[x]) < 0
          /\ Signed(div(plasma(heap).velocity, solver).data[y]) > 0
          /\ call.val.data[x] # 0

\* C9: from the snapshot to the commit, orig_variables[n] holds the value core
\* variable n had when time_stepper was entered.
C9_OrigImmutable ==
    InCall => \A n \in 1..4 : heap[orig_variables[n]] = entry[n]

\* The commit loop is running and the core variable differs from its copy.
C9_Witness ==
    /\ pc = "commit"
    /\ \A n \in 1..4 : heap[core_variables[n]] # heap[orig_variables[n]]

\* C10: no step of an evaluation loop changes a core variable: the four
\* evaluators of a stage read one working state, which changes only in the
\* update loop that follows the fourth evaluation.
C10_StageReadsOneState ==
    [][(pc \in EvalPcs) => (Core(heap') = Core(heap))]_vars

\* The fourth evaluation of stage 3 is about to run on a working state that
\* differs from the state on entry.
C10_Witness ==
    /\ pc = "stage3_eval"
    /\ i = 4
    /\ Core(heap) # entry

=============================================================================
